---- MODULE Spec2Model ----
(***************************************************************************)
(* Model of the LLMule network client (src/src/networkClient.js, the       *)
(* NetworkClient class of lines 227-751, with the process-level code of    *)
(* lines 753-783 and the entry points src/src/index.js and                 *)
(* src/unnamed/part_003).                                                  *)
(*                                                                         *)
(* One action is one run-to-completion step of the Node.js event loop: an  *)
(* event handler or the continuation of an await, taken up to its next     *)
(* await.  The WebSocket handles follow the ws 8 library the package       *)
(* depends on: send()/pong() throw on a CONNECTING socket and are dropped  *)
(* silently on a CLOSING or CLOSED one; terminate() of a CONNECTING socket *)
(* emits 'error' and 'close', terminate() of an OPEN one emits 'close'.    *)
(***************************************************************************)
EXTENDS Integers, FiniteSets, Sequences, TLC

\* ---------------------------------------------------------------- bounds
\* Spec: the client serving requests
MaxHandles == 2
MaxInFlight == 2
MaxFaults == 1
\* SpecAdmission: the admission control over one connection
AdmHandles == 1
AdmInFlight == 3
AdmFaults == 1
\* SpecConn: the connection life cycle alone
ConnHandles == 2
ConnFaults == 2
\* SpecFail: a server that never accepts a connection
FailHandles == 6
LiveHandles == 2
LiveFaults == 2
ReplayInFlight == 2

\* ------------------------------------------------------ program constants
maxConcurrentModels == 2
maxReconnectAttempts == 5
AuthFailureCode == 4001
CleanCloseCode == 1000
AbnormalCloseCode == 1006
\* options.temperature || 0.7, in tenths, and options.max_tokens || 4096
DefaultTemperature == 7
DefaultMaxTokens == 4096

Handles == 1..FailHandles
ModelNames == {"m1", "m2", "m3", "m4"}
CloseCodes == {CleanCloseCode, AbnormalCloseCode, AuthFailureCode}
RequestIds == 1..(AdmInFlight + 1)
DiscoveryResults == {{}, {"m1", "m2", "m3"}}

VARIABLES
  mainPc,            \* "idle" before main() runs, then the entry point taken
  apiKey,            \* config.api_key is set
  startPc,           \* position of start() / detectAndConnect()
  ws,                \* this.ws: the current handle, 0 for null
  wsState,           \* readyState of every handle created so far
  openPc,            \* position of each handle's 'open' handler
  waiter,            \* who awaits the pending promise of connect() for a handle
  hbOn,              \* handles that carry the ping/pong listeners
  regCount,          \* register messages written to each handle
  models,            \* this.models (names)
  isConnected,
  shouldReconnect,
  authFailed,        \* a 'close' with the authentication-failure code was seen
  reconnectAttempts,
  reconnectsWaiting, \* reconnect() calls sleeping in their reconnectDelay
  hbActive,          \* the interval of this.heartbeatInterval is running
  stale,             \* Date.now() - this.lastPong > 45000
  exited,            \* process.exit() was called
  activeModels,      \* this.activeModels
  req,               \* the completion requests, by requestId
  faults,            \* failures the environment has injected so far
  last,              \* the request whose processing ended in the last step
  ping,              \* the ping message handled in the last step
  sigPc,             \* position of the SIGINT / SIGTERM handler
  singleton,         \* the module-level instance networkClient
  disconnectSent,    \* handles a disconnect message was written to
  call,              \* the options of the backend call made in the last step
  detection          \* the detectAll() that returned in the last step

vars == <<mainPc, apiKey, startPc, ws, wsState, openPc, waiter, hbOn,
          regCount, models, isConnected, shouldReconnect, authFailed,
          reconnectAttempts, reconnectsWaiting, hbActive, stale, exited,
          activeModels, req, faults, last, ping, sigPc, singleton,
          disconnectSent, call, detection>>

\* a requestId with no request in flight
NoRequest ==
  [phase |-> "free", model |-> "none", conn |-> 0, replay |-> FALSE,
   result |-> 0]

\* no request ended in the last step
NoLast ==
  [requestId |-> 0, conn |-> 0, model |-> "none", outcome |-> "none",
   sent |-> 0, sentOn |-> 0, sentId |-> 0, code |-> "none",
   message |-> "none", again |-> FALSE, payload |-> 0]

\* an option of a completion_request: absent, or present with a value
\* (temperatures in tenths)
Absent == [has |-> FALSE, val |-> 0]
Given(v) == [has |-> TRUE, val |-> v]
Temperatures == {Absent, Given(0), Given(DefaultTemperature), Given(10)}
MaxTokens == {Absent, Given(100), Given(DefaultMaxTokens)}

\* no backend call was made in the last step
NoCall ==
  [made |-> FALSE, reqTemperature |-> Absent, reqMaxTokens |-> Absent,
   temperature |-> 0, max_tokens |-> 0]


\* the local LLM services: which of them are running, and the models each
\* lists when it runs
Services == [ollama : BOOLEAN, lmstudio : BOOLEAN, exo : BOOLEAN]
OllamaModels == {"m1"}
LMStudioModels == {"m2"}
ExoModels == {"m3"}

\* no detectAll() returned in the last step
NoDetection ==
  [made |-> FALSE,
   running |-> [ollama |-> FALSE, lmstudio |-> FALSE, exo |-> FALSE],
   result |-> {}]


\* no ping message was handled in the last step
NoPing == [on |-> 0, pong |-> 0, pongOn |-> 0]

\* the fields of a NetworkClient that was constructed and never used
Constructed ==
  [ws |-> 0, isConnected |-> FALSE, shouldReconnect |-> TRUE,
   hbActive |-> FALSE]

Created == {h \in Handles : wsState[h] # "none"}
Live == {h \in Handles : wsState[h] \in {"connecting", "open"}}
CanCreate(maxH) == Cardinality(Created) < maxH
\* the state after one more injected failure
fault(s) == [s EXCEPT !.faults = @ + 1]

\* The state as one record, so that the synchronous code of a handler is
\* the composition of the functions below.
Cur ==
  [mainPc |-> mainPc, apiKey |-> apiKey, startPc |-> startPc, ws |-> ws,
   wsState |-> wsState, openPc |-> openPc, waiter |-> waiter, hbOn |-> hbOn,
   regCount |-> regCount, models |-> models, isConnected |-> isConnected,
   shouldReconnect |-> shouldReconnect, authFailed |-> authFailed,
   reconnectAttempts |-> reconnectAttempts,
   reconnectsWaiting |-> reconnectsWaiting, hbActive |-> hbActive,
   stale |-> stale, exited |-> exited, activeModels |-> activeModels,
   req |-> req, faults |-> faults, last |-> NoLast, ping |-> NoPing,
   sigPc |-> sigPc, singleton |-> singleton,
   disconnectSent |-> disconnectSent, call |-> NoCall,
   detection |-> NoDetection]

Commit(s) ==
  /\ mainPc' = s.mainPc
  /\ apiKey' = s.apiKey
  /\ startPc' = s.startPc
  /\ ws' = s.ws
  /\ wsState' = s.wsState
  /\ openPc' = s.openPc
  /\ waiter' = s.waiter
  /\ hbOn' = s.hbOn
  /\ regCount' = s.regCount
  /\ models' = s.models
  /\ isConnected' = s.isConnected
  /\ shouldReconnect' = s.shouldReconnect
  /\ authFailed' = s.authFailed
  /\ reconnectAttempts' = s.reconnectAttempts
  /\ reconnectsWaiting' = s.reconnectsWaiting
  /\ hbActive' = s.hbActive
  /\ stale' = s.stale
  /\ exited' = s.exited
  /\ activeModels' = s.activeModels
  /\ req' = s.req
  /\ faults' = s.faults
  /\ last' = s.last
  /\ ping' = s.ping
  /\ sigPc' = s.sigPc
  /\ singleton' = s.singleton
  /\ disconnectSent' = s.disconnectSent
  /\ call' = s.call
  /\ detection' = s.detection

Init ==
  /\ mainPc = "idle"
  /\ apiKey \in BOOLEAN
  /\ startPc = "idle"
  /\ ws = 0
  /\ wsState = [h \in Handles |-> "none"]
  /\ openPc = [h \in Handles |-> "none"]
  /\ waiter = [h \in Handles |-> "none"]
  /\ hbOn = [h \in Handles |-> FALSE]
  /\ regCount = [h \in Handles |-> 0]
  /\ models = {}
  /\ isConnected = FALSE
  /\ shouldReconnect = TRUE
  /\ authFailed = FALSE
  /\ reconnectAttempts = 0
  /\ reconnectsWaiting = 0
  /\ hbActive = FALSE
  /\ stale = FALSE
  /\ exited = FALSE
  /\ activeModels = {}
  /\ req = [r \in RequestIds |-> NoRequest]
  /\ faults = 0
  /\ last = NoLast
  /\ ping = NoPing
  /\ sigPc = "none"
  /\ singleton = Constructed
  /\ disconnectSent = {}
  /\ call = NoCall
  /\ detection = NoDetection

\* ------------------------------------------------- the ws library's calls

\* ws.terminate()
terminate(s, h) ==
  [s EXCEPT !.wsState[h] =
     CASE @ = "connecting" -> "aborting"
       [] @ = "open" -> "closing"
       [] OTHER -> @]

\* ws.close() as register() calls it: only on an OPEN socket
closeIfOpen(s, h) ==
  [s EXCEPT !.wsState[h] = IF @ = "open" THEN "closing" ELSE @]

\* --------------------------------------------- continuations of connect()

\* The caller of connect() resumes once the promise settles.
resume(s, who, ok) ==
  CASE who = "start" ->
         [s EXCEPT !.startPc = IF ok THEN "sleep" ELSE "retry"]
    [] who = "reconnect" /\ ok ->
         [s EXCEPT !.reconnectAttempts = 0]
    [] OTHER -> s

\* resolve() / reject() of the promise made by connect() for handle h
settle(s, h, ok) ==
  resume([s EXCEPT !.waiter[h] = "none"], s.waiter[h], ok)

\* connect() without its check of shouldReconnect
connectAlways(s, who) ==
  LET h == Cardinality({k \in Handles : s.wsState[k] # "none"}) + 1
  IN [s EXCEPT !.ws = h, !.wsState[h] = "connecting", !.waiter[h] = who]

\* connect(), up to the promise it returns
connect(s, who) ==
  IF ~s.shouldReconnect
  THEN resume(s, who, TRUE)
  ELSE LET h == Cardinality({k \in Handles : s.wsState[k] # "none"}) + 1
       IN [s EXCEPT !.ws = h, !.wsState[h] = "connecting",
                    !.waiter[h] = who]

\* cleanup(), up to its first await: on an OPEN socket that of the send of
\* the disconnect message, else the 500 ms wait at its end
cleanup(s) ==
  LET s1 == [s EXCEPT !.shouldReconnect = FALSE, !.hbActive = FALSE]
  IN IF s1.ws = 0 THEN [s1 EXCEPT !.isConnected = FALSE]
     ELSE IF s1.wsState[s1.ws] = "open"
     THEN [s1 EXCEPT !.disconnectSent = @ \cup {s1.ws}]
     ELSE [terminate(s1, s1.ws) EXCEPT !.isConnected = FALSE]

\* reconnect(), up to its await of the reconnectDelay
reconnect(s) ==
  IF ~s.shouldReconnect THEN s
  ELSE LET s1 == IF s.ws # 0 THEN terminate(s, s.ws) ELSE s
           s2 == [s1 EXCEPT !.hbActive = FALSE,
                            !.reconnectAttempts = @ + 1]
       IN IF s2.reconnectAttempts > maxReconnectAttempts
          THEN [cleanup(s2) EXCEPT !.exited = TRUE]
          ELSE [s2 EXCEPT !.reconnectsWaiting = @ + 1]

\* the 'close' handler of handle h, if it cleared the heartbeat interval
\* on a close it does not answer with reconnect()
onCloseStopsHeartbeat(s, h, code) ==
  LET s1 == [s EXCEPT !.isConnected = FALSE]
  IN IF code = AuthFailureCode
     THEN settle([s1 EXCEPT !.shouldReconnect = FALSE,
                            !.authFailed = TRUE], h, FALSE)
     ELSE IF code = CleanCloseCode \/ ~s1.shouldReconnect
     THEN [s1 EXCEPT !.hbActive = FALSE]
     ELSE reconnect(s1)

\* the 'close' handler of handle h
onClose(s, h, code) ==
  LET s1 == [s EXCEPT !.isConnected = FALSE]
  IN IF code = AuthFailureCode
     THEN settle([s1 EXCEPT !.shouldReconnect = FALSE,
                            !.authFailed = TRUE], h, FALSE)
     ELSE IF code = CleanCloseCode \/ ~s1.shouldReconnect
     THEN s1
     ELSE reconnect(s1)

\* the 'error' handler of handle h, if it ended the process
onErrorFatal(s, h) ==
  [settle([s EXCEPT !.isConnected = FALSE], h, FALSE) EXCEPT !.exited = TRUE]

\* the 'error' handler of handle h
onError(s, h) ==
  settle([s EXCEPT !.isConnected = FALSE], h, FALSE)

\* setupHeartbeat()
setupHeartbeat(s) ==
  [s EXCEPT !.hbActive = TRUE, !.hbOn[s.ws] = TRUE]

\* register(), from the return of getUserInfo() (ok: with a userId)
register(s, ok) ==
  LET st == s.wsState[s.ws]
  IN IF ok /\ st = "open" THEN [s EXCEPT !.regCount[s.ws] = @ + 1]
     ELSE IF ok /\ st # "connecting" THEN s
     ELSE closeIfOpen([s EXCEPT !.isConnected = FALSE], s.ws)

\* ------------------------------------------------ completion requests

\* this.ws.send() throws: the socket is CONNECTING
sendThrows(s) == s.wsState[s.ws] = "connecting"

\* this.ws.send() of a completion_response for request r: written to an
\* OPEN socket, dropped by a CLOSING or CLOSED one
wsSend(s, r, code, message) ==
  IF s.wsState[s.ws] = "open"
  THEN [s EXCEPT !.last.sent = @ + 1, !.last.sentOn = s.ws,
                 !.last.sentId = r, !.last.code = code,
                 !.last.message = message]
  ELSE s

\* sendErrorResponse() that also closes the connection
sendErrorResponseAndClose(s, r, message) ==
  IF sendThrows(s) THEN s
  ELSE closeIfOpen(wsSend(s, r, "internal_error", message), s.ws)

\* sendErrorResponse(requestId, errorMessage)
sendErrorResponse(s, r, message) ==
  IF sendThrows(s) THEN s ELSE wsSend(s, r, "internal_error", message)

\* the processing of request r ends
ended(s, r, outcome) ==
  [s EXCEPT !.req[r] = NoRequest,
            !.last.requestId = r, !.last.conn = s.req[r].conn,
            !.last.model = s.req[r].model, !.last.outcome = outcome,
            !.last.again = s.req[r].replay]

\* the delete at the end of the try block instead of a finally block: the
\* slot is released only after the result was sent
releaseOnSuccess(s, r) ==
  IF s.last.sent > 0 /\ s.last.code = "none"
  THEN [s EXCEPT !.activeModels = @ \ {s.req[r].model}]
  ELSE s

\* the finally block of handleCompletionRequest()
release(s, r) ==
  [s EXCEPT !.activeModels = @ \ {s.req[r].model}]

\* handleCompletionRequest() without the check of activeModels.size
handleCompletionRequestUnlimited(s, r) ==
  LET m == s.req[r].model
  IN IF m \notin s.models
     THEN ended(sendErrorResponse(s, r, "not available"), r, "unknown")
     ELSE [s EXCEPT !.activeModels = @ \cup {m},
                    !.req[r].phase = "backend"]

\* handleCompletionRequest() without the lookup of the model in this.models
handleCompletionRequestNoLookup(s, r) ==
  LET m == s.req[r].model
  IN IF /\ Cardinality(s.activeModels) >= maxConcurrentModels
        /\ m \notin s.activeModels
     THEN ended(release(sendErrorResponse(s, r, "maximum concurrent"), r),
                r, "rejected")
     ELSE [s EXCEPT !.activeModels = @ \cup {m},
                    !.req[r].phase = "backend"]

\* handleCompletionRequest() with a deduplication of requestIds: a request
\* whose requestId was answered in the step before is dropped
handleCompletionRequestDedup(s, r) ==
  LET m == s.req[r].model
  IN IF s.req[r].replay
     THEN ended(s, r, "duplicate")
     ELSE IF m \notin s.models
     THEN ended(sendErrorResponse(s, r, "not available"), r, "unknown")
     ELSE IF /\ Cardinality(s.activeModels) >= maxConcurrentModels
             /\ m \notin s.activeModels
     THEN ended(release(sendErrorResponse(s, r, "maximum concurrent"), r),
                r, "rejected")
     ELSE [s EXCEPT !.activeModels = @ \cup {m},
                    !.req[r].phase = "backend"]

\* handleCompletionRequest() with an admission check that ignores whether
\* the model is already in this.activeModels
handleCompletionRequestStrict(s, r) ==
  LET m == s.req[r].model
  IN IF m \notin s.models
     THEN ended(sendErrorResponse(s, r, "not available"), r, "unknown")
     ELSE IF Cardinality(s.activeModels) >= maxConcurrentModels
     THEN ended(release(sendErrorResponse(s, r, "maximum concurrent"), r),
                r, "rejected")
     ELSE [s EXCEPT !.activeModels = @ \cup {m},
                    !.req[r].phase = "backend"]

\* handleCompletionRequest() with an admission check that counts the
\* requests waiting for their backend calls instead of the models
handleCompletionRequestPerRequest(s, r) ==
  LET m == s.req[r].model
  IN IF m \notin s.models
     THEN ended(sendErrorResponse(s, r, "not available"), r, "unknown")
     ELSE IF Cardinality({q \in RequestIds : s.req[q].phase = "backend"})
               >= maxConcurrentModels
     THEN ended(release(sendErrorResponse(s, r, "maximum concurrent"), r),
                r, "rejected")
     ELSE [s EXCEPT !.activeModels = @ \cup {m},
                    !.req[r].phase = "backend"]

\* handleCompletionRequest(), up to await client.generateCompletion()
handleCompletionRequest(s, r) ==
  LET m == s.req[r].model
  IN IF m \notin s.models
     THEN ended(sendErrorResponse(s, r, "not available"), r, "unknown")
     ELSE IF /\ Cardinality(s.activeModels) >= maxConcurrentModels
             /\ m \notin s.activeModels
     THEN ended(release(sendErrorResponse(s, r, "maximum concurrent"), r),
                r, "rejected")
     ELSE [s EXCEPT !.activeModels = @ \cup {m},
                    !.req[r].phase = "backend"]

\* the send of the result, if the backend's response were kept in one field
\* of the client that every returning backend call overwrites
sendCompletionShared(s, r) ==
  IF sendThrows(s)
  THEN sendErrorResponse(s, r, "send failed")
  ELSE LET s1 == wsSend(s, r, "none", "result")
           held == {q \in RequestIds : s.req[q].phase = "balance"}
       IN IF s1.last.sent > s.last.sent
          THEN [s1 EXCEPT !.last.payload =
                  s.req[CHOOSE q \in held : \A p \in held : p <= q].result]
          ELSE s1

\* handleCompletionRequest(): this.ws.send() of the result, with the catch
\* block when it throws
sendCompletion(s, r) ==
  IF sendThrows(s)
  THEN sendErrorResponse(s, r, "send failed")
  ELSE LET s1 == wsSend(s, r, "none", "result")
       IN IF s1.last.sent > s.last.sent
          THEN [s1 EXCEPT !.last.payload = s.req[r].result]
          ELSE s1

\* ------------------------------------------------------------- the actions

\* main() of src/src/index.js calls connect(); main() of part_003 calls
\* start(), whose ensureAuthentication() lets it go on only with an api key.
Main(maxH, entry) ==
  /\ ~exited
  /\ mainPc = "idle"
  /\ CanCreate(maxH)
  /\ IF entry = "connect"
     THEN Commit(connect([Cur EXCEPT !.mainPc = "connect"], "main"))
     ELSE Commit([Cur EXCEPT !.mainPc = "start",
                             !.startPc = IF apiKey THEN "detect"
                                         ELSE "auth"])

\* ensureAuthentication() without an api key ends in process.exit()
AuthExit ==
  /\ ~exited
  /\ startPc = "auth"
  /\ Commit([Cur EXCEPT !.exited = TRUE])

\* ModelDetector.checkServices(): this.serviceStatus after it, starting
\* from the constructor's {ollama: false, lmstudio: false, exo: false}
checkServices(running) ==
  [ollama |-> running.ollama, lmstudio |-> running.lmstudio, exo |-> FALSE]

\* detectOllamaModels() / detectLMStudioModels() / detectEXOModels(): the
\* models a service lists, or none when its serviceStatus is false
detectModels(status, listed) == IF status THEN listed ELSE {}

\* ModelDetector.detectAll()
detectAll(running) ==
  LET serviceStatus == checkServices(running)
  IN detectModels(serviceStatus.ollama, OllamaModels)
       \cup detectModels(serviceStatus.lmstudio, LMStudioModels)
       \cup detectModels(serviceStatus.exo, ExoModels)

\* detectAndConnect() with the services as they run: detectAll() has
\* returned and all detected models are shared
DetectServices(maxH, running) ==
  /\ ~exited
  /\ startPc = "detect"
  /\ LET sel == detectAll(running)
         s0 == [Cur EXCEPT !.detection = [made |-> TRUE,
                                          running |-> running,
                                          result |-> sel]]
     IN IF sel = {}
        THEN Commit([s0 EXCEPT !.startPc = "nomodels"])
        ELSE /\ shouldReconnect => CanCreate(maxH)
             /\ Commit(connect([s0 EXCEPT !.models = sel,
                                          !.startPc = "await"], "start"))


\* detectAndConnect(): detectAll() and selectModelsToShare() have returned
DetectDone(maxH, sel) ==
  /\ ~exited
  /\ startPc = "detect"
  /\ IF sel = {}
     THEN Commit([Cur EXCEPT !.startPc = "nomodels"])
     ELSE /\ shouldReconnect => CanCreate(maxH)
          /\ Commit(connect([Cur EXCEPT !.models = sel,
                                        !.startPc = "await"], "start"))

\* detectAndConnect(): the 10 s or 5 s wait before the next detection is over
WaitDone ==
  /\ ~exited
  /\ startPc \in {"nomodels", "retry"}
  /\ Commit([Cur EXCEPT !.startPc = "detect"])

\* start(): the 5 s sleep of the loop is over and isConnected is false
SleepDone ==
  /\ ~exited
  /\ startPc = "sleep"
  /\ ~isConnected
  /\ Commit([Cur EXCEPT !.startPc = "detect"])

\* the handshake of h fails, or h was terminated before it opened:
\* ws emits 'error' and then 'close' in the same tick
FailConnect(maxF, h) ==
  /\ ~exited
  /\ \/ wsState[h] = "aborting"
     \/ wsState[h] = "connecting" /\ faults < maxF
  /\ LET s0 == IF wsState[h] = "connecting" THEN fault(Cur) ELSE Cur
     IN Commit(onClose(onError([s0 EXCEPT !.wsState[h] = "closed"], h),
                       h, AbnormalCloseCode))

\* the 15 s timer of connect() fires before 'open'
ConnectTimeout(maxF, h) ==
  /\ ~exited
  /\ faults < maxF
  /\ wsState[h] # "none"
  /\ openPc[h] = "none"
  /\ waiter[h] # "none"
  /\ Commit(settle(fault(Cur), h, FALSE))

\* 'open' handler of h, up to await fetchBalance()
Open(h) ==
  /\ ~exited
  /\ wsState[h] = "connecting"
  /\ Commit([Cur EXCEPT !.wsState[h] = "open", !.openPc[h] = "balance",
                        !.isConnected = TRUE, !.reconnectAttempts = 0])

\* 'open' handler of h: fetchBalance() returned; setupHeartbeat();
\* register() up to await getUserInfo()
OpenBalanceDone(h) ==
  /\ ~exited
  /\ openPc[h] = "balance"
  /\ Commit(setupHeartbeat([Cur EXCEPT !.openPc[h] = "userinfo"]))

\* register(): getUserInfo() returned (ok: with a userId); the register
\* message is written to this.ws; then the 'open' handler resolves
RegisterDone(maxF, h, ok) ==
  /\ ~exited
  /\ openPc[h] = "userinfo"
  /\ ok \/ faults < maxF
  /\ LET s0 == [(IF ok THEN Cur ELSE fault(Cur)) EXCEPT !.openPc[h] = "done"]
     IN Commit(settle(register(s0, ok), h, TRUE))

\* the remote side closes the open handle h with a code
RemoteClose(maxF, h, code) ==
  /\ ~exited
  /\ faults < maxF
  /\ wsState[h] = "open"
  /\ Commit(onClose([fault(Cur) EXCEPT !.wsState[h] = "closed"], h, code))

\* 'close' of a handle closed or terminated locally
CloseDeliver(h) ==
  /\ ~exited
  /\ wsState[h] = "closing"
  /\ Commit(onClose([Cur EXCEPT !.wsState[h] = "closed"], h,
                    AbnormalCloseCode))

\* 'error' on an open handle; its 'close' follows
ErrorEvent(maxF, h) ==
  /\ ~exited
  /\ faults < maxF
  /\ wsState[h] = "open"
  /\ Commit(onError([fault(Cur) EXCEPT !.wsState[h] = "closing"], h))

\* more than 45 s pass without a ping frame while the heartbeat runs
TimePasses(maxF) ==
  /\ ~exited
  /\ faults < maxF
  /\ hbActive
  /\ ~stale
  /\ Commit([fault(Cur) EXCEPT !.stale = TRUE])

\* the heartbeat interval fires and finds lastPong older than 45 s
HeartbeatTick ==
  /\ ~exited
  /\ hbActive
  /\ stale
  /\ Commit(reconnect(Cur))

\* a WebSocket ping frame on a handle with the listener of setupHeartbeat():
\* this.ws.pong() throws on a CONNECTING this.ws, else lastPong = now
PingFrame(h) ==
  /\ ~exited
  /\ wsState[h] = "open"
  /\ hbOn[h]
  /\ stale
  /\ wsState[ws] # "connecting"
  /\ Commit([Cur EXCEPT !.stale = FALSE])

\* reconnect(): the reconnectDelay is over; connect()
ReconnectFire(maxH) ==
  /\ ~exited
  /\ reconnectsWaiting > 0
  /\ shouldReconnect => CanCreate(maxH)
  /\ Commit(connect([Cur EXCEPT !.reconnectsWaiting = @ - 1], "reconnect"))

\* the request about to be received repeats the one that was answered with
\* a completion result in the step before: same requestId, same model
Replayed(r, m) ==
  /\ last.requestId = r
  /\ last.model = m
  /\ last.outcome = "completed"
  /\ last.sent = 1
  /\ last.code = "none"

\* a completion_request with requestId r for model m arrives on handle h,
\* on which the server has seen a register message.  A requestId is unique
\* among the requests in flight.
Receive(maxI, h, r, m) ==
  /\ ~exited
  /\ wsState[h] = "open"
  /\ regCount[h] > 0
  /\ req[r].phase = "free"
  /\ \A q \in 1..(r - 1) : req[q].phase # "free"
  /\ LET s1 == handleCompletionRequest(
                 [Cur EXCEPT !.req[r] = [NoRequest EXCEPT !.model = m,
                                                          !.conn = h]], r)
     IN /\ Cardinality({q \in RequestIds : s1.req[q].phase # "free"}) <= maxI
        /\ Commit(s1)

\* the server replays, on handle h, the completion_request with requestId r
\* for model m that was answered in the step before; the request is
\* marked so that its processing can be told from that of the first one
ReceiveAgain(maxI, h, r, m) ==
  /\ ~exited
  /\ wsState[h] = "open"
  /\ regCount[h] > 0
  /\ req[r].phase = "free"
  /\ Replayed(r, m)
  /\ LET s1 == handleCompletionRequest(
                 [Cur EXCEPT !.req[r] = [NoRequest EXCEPT !.model = m,
                                                          !.conn = h,
                                                          !.replay = TRUE]], r)
     IN /\ Cardinality({q \in RequestIds : s1.req[q].phase # "free"}) <= maxI
        /\ Commit(s1)


\* value || fallback of JavaScript for an option that is undefined or a
\* number: undefined and 0 are falsy
orDefault(opt, fallback) ==
  IF ~opt.has \/ opt.val = 0 THEN fallback ELSE opt.val

\* generateCompletion(model, messages, {temperature, max_tokens}): the
\* options of the request body posted to the backend
generateCompletion(s, t, k) ==
  [s EXCEPT !.call = [made |-> TRUE, reqTemperature |-> t,
                      reqMaxTokens |-> k,
                      temperature |-> orDefault(t, DefaultTemperature),
                      max_tokens |-> orDefault(k, DefaultMaxTokens)]]

\* a completion_request arrives with its temperature t and max_tokens k:
\* when it is admitted, the backend call is made in the same step
ReceiveWithOptions(maxI, h, r, m, t, k) ==
  /\ ~exited
  /\ wsState[h] = "open"
  /\ regCount[h] > 0
  /\ req[r].phase = "free"
  /\ \A q \in 1..(r - 1) : req[q].phase # "free"
  /\ LET s1 == handleCompletionRequest(
                 [Cur EXCEPT !.req[r] = [NoRequest EXCEPT !.model = m,
                                                          !.conn = h]], r)
     IN /\ Cardinality({q \in RequestIds : s1.req[q].phase # "free"}) <= maxI
        /\ IF s1.req[r].phase = "backend"
           THEN Commit(generateCompletion(s1, t, k))
           ELSE Commit(s1)


\* client.generateCompletion() returns (ok) or throws; the value returned
\* for request r, held in the local const response, is named by r
BackendDone(r, ok) ==
  /\ ~exited
  /\ req[r].phase = "backend"
  /\ IF ok
     THEN Commit([Cur EXCEPT !.req[r].phase = "balance",
                             !.req[r].result = r])
     ELSE Commit(ended(release(sendErrorResponse(Cur, r, "backend"), r),
                       r, "failed"))

\* fetchBalance() returned: the result is sent and the slot released
BalanceDone(r) ==
  /\ ~exited
  /\ req[r].phase = "balance"
  /\ Commit(ended(release(sendCompletion(Cur, r), r), r, "completed"))

\* the 'ping' case of handleMessage(): this.ws.send() of a pong message
handlePing(s) ==
  IF sendThrows(s) THEN s
  ELSE IF s.wsState[s.ws] = "open"
  THEN [s EXCEPT !.ping.pong = @ + 1, !.ping.pongOn = s.ws]
  ELSE s

\* a message of type ping arrives on the open handle h
PingMessage(h) ==
  /\ ~exited
  /\ wsState[h] = "open"
  /\ Commit(handlePing([Cur EXCEPT !.ping.on = h]))

\* SIGINT or SIGTERM arrives: the handler calls cleanup() of the module-level
\* instance networkClient and awaits it.  (The SIGINT listener that
\* detectAndConnect() adds while it waits for LLM services exits at once:
\* that is this step directly followed by SignalExit.)  No signal is handled
\* before the script has run main().
Signal ==
  /\ ~exited
  /\ mainPc # "idle"
  /\ sigPc = "none"
  /\ Commit([Cur EXCEPT !.sigPc = "cleanup",
                        !.singleton = cleanup(singleton)])

\* the signal handler: cleanup() has returned; process.exit(0)
SignalExit ==
  /\ ~exited
  /\ sigPc = "cleanup"
  /\ Commit([Cur EXCEPT !.sigPc = "exited", !.exited = TRUE])


\* selectModelsToShare(): the user cancels the MultiSelect prompt (Ctrl+C);
\* onCancel and the catch block call process.exit(0)
SelectCancel ==
  /\ ~exited
  /\ startPc = "detect"
  /\ Commit([Cur EXCEPT !.startPc = "cancelled", !.exited = TRUE])


Connection(maxH, maxF) ==
  \/ \E e \in {"connect", "start"} : Main(maxH, e)
  \/ AuthExit
  \/ \E sel \in DiscoveryResults : DetectDone(maxH, sel)
  \/ WaitDone
  \/ SleepDone
  \/ \E h \in Handles : FailConnect(maxF, h)
  \/ \E h \in Handles : ConnectTimeout(maxF, h)
  \/ \E h \in Handles : Open(h)
  \/ \E h \in Handles : OpenBalanceDone(h)
  \/ \E h \in Handles, ok \in BOOLEAN : RegisterDone(maxF, h, ok)
  \/ \E h \in Handles, c \in CloseCodes : RemoteClose(maxF, h, c)
  \/ \E h \in Handles : CloseDeliver(h)
  \/ \E h \in Handles : ErrorEvent(maxF, h)
  \/ TimePasses(maxF)
  \/ HeartbeatTick
  \/ \E h \in Handles : PingFrame(h)
  \/ ReconnectFire(maxH)

Requests(maxI) ==
  \/ \E h \in Handles, r \in RequestIds, m \in ModelNames :
       Receive(maxI, h, r, m)
  \/ \E r \in RequestIds, ok \in BOOLEAN : BackendDone(r, ok)
  \/ \E r \in RequestIds : BalanceDone(r)

\* the client serving requests
Next == Connection(MaxHandles, MaxFaults) \/ Requests(MaxInFlight)

Spec == Init /\ [][Next]_vars

\* the admission control: one connection, and no reconnect delay ends
NextAdmission ==
  \/ \E e \in {"connect", "start"} : Main(AdmHandles, e)
  \/ AuthExit
  \/ \E sel \in DiscoveryResults : DetectDone(AdmHandles, sel)
  \/ WaitDone
  \/ SleepDone
  \/ \E h \in Handles : FailConnect(AdmFaults, h)
  \/ \E h \in Handles : ConnectTimeout(AdmFaults, h)
  \/ \E h \in Handles : Open(h)
  \/ \E h \in Handles : OpenBalanceDone(h)
  \/ \E h \in Handles, ok \in BOOLEAN : RegisterDone(AdmFaults, h, ok)
  \/ \E h \in Handles, c \in CloseCodes : RemoteClose(AdmFaults, h, c)
  \/ \E h \in Handles : CloseDeliver(h)
  \/ \E h \in Handles : ErrorEvent(AdmFaults, h)
  \/ TimePasses(AdmFaults)
  \/ HeartbeatTick
  \/ \E h \in Handles : PingFrame(h)
  \/ Requests(AdmInFlight)

SpecAdmission == Init /\ [][NextAdmission]_vars

\* the admission control with replayed requests
NextReplay ==
  \/ \E e \in {"connect", "start"} : Main(AdmHandles, e)
  \/ AuthExit
  \/ \E sel \in DiscoveryResults : DetectDone(AdmHandles, sel)
  \/ WaitDone
  \/ SleepDone
  \/ \E h \in Handles : FailConnect(AdmFaults, h)
  \/ \E h \in Handles : ConnectTimeout(AdmFaults, h)
  \/ \E h \in Handles : Open(h)
  \/ \E h \in Handles : OpenBalanceDone(h)
  \/ \E h \in Handles, ok \in BOOLEAN : RegisterDone(AdmFaults, h, ok)
  \/ \E h \in Handles, c \in CloseCodes : RemoteClose(AdmFaults, h, c)
  \/ \E h \in Handles : CloseDeliver(h)
  \/ \E h \in Handles : ErrorEvent(AdmFaults, h)
  \/ TimePasses(AdmFaults)
  \/ HeartbeatTick
  \/ \E h \in Handles : PingFrame(h)
  \/ Requests(ReplayInFlight)
  \/ \E h \in Handles, r \in RequestIds, m \in ModelNames :
       ReceiveAgain(ReplayInFlight, h, r, m)

SpecReplay == Init /\ [][NextReplay]_vars

\* the same with requests that carry their options
NextOptions ==
  \/ NextReplay
  \/ \E h \in Handles, r \in RequestIds, m \in ModelNames,
        t \in Temperatures, k \in MaxTokens :
       ReceiveWithOptions(ReplayInFlight, h, r, m, t, k)

SpecOptions == Init /\ [][NextOptions]_vars

\* the connection life cycle with no request arriving
NextConn == Connection(ConnHandles, ConnFaults)

SpecConn == Init /\ [][NextConn]_vars

\* the connection life cycle with the detection of the local services
NextDetect ==
  \/ Connection(ConnHandles, ConnFaults)
  \/ \E running \in Services : DetectServices(ConnHandles, running)

SpecDetect == Init /\ [][NextDetect]_vars

\* the connection life cycle with a termination signal
NextSignal == Connection(ConnHandles, ConnFaults) \/ Signal \/ SignalExit

SpecSignal == Init /\ [][NextSignal]_vars

\* the connection life cycle with every way the process ends
NextExit ==
  \/ Connection(ConnHandles, ConnFaults)
  \/ Signal
  \/ SignalExit
  \/ SelectCancel

SpecExit == Init /\ [][NextExit]_vars

\* the client serving requests and ping messages
NextPing == Next \/ \E h \in Handles : PingMessage(h)

SpecPing == Init /\ [][NextPing]_vars

\* the same with one connection at a time
NextPingOne == NextAdmission \/ \E h \in Handles : PingMessage(h)

SpecPingOne == Init /\ [][NextPingOne]_vars


\* a server that accepts no connection: every attempt fails or hangs
NextFail ==
  \/ \E e \in {"connect", "start"} : Main(FailHandles, e)
  \/ AuthExit
  \/ \E sel \in DiscoveryResults : DetectDone(FailHandles, sel)
  \/ WaitDone
  \/ \E h \in Handles : FailConnect(2 * FailHandles, h)
  \/ \E h \in Handles : ConnectTimeout(2 * FailHandles, h)
  \/ ReconnectFire(FailHandles)

SpecFail == Init /\ [][NextFail]_vars

\* 45 s pass without a ping frame because no open handle has the listener
\* of setupHeartbeat(): lastPong can only grow older
SilenceElapses ==
  /\ ~exited
  /\ hbActive
  /\ ~stale
  /\ \A h \in Handles : ~(wsState[h] = "open" /\ hbOn[h])
  /\ Commit([Cur EXCEPT !.stale = TRUE])

\* the connection life cycle with the passing of time on a silent client
NextLive == Connection(LiveHandles, LiveFaults) \/ SilenceElapses

\* Timers fire and awaited local calls return: the event loop runs every
\* callback that stays ready.  What the remote side does ('open', failures,
\* remote closes, ping frames) is not forced.
Scheduling ==
  /\ WF_vars(SilenceElapses)
  /\ WF_vars(HeartbeatTick)
  /\ WF_vars(ReconnectFire(LiveHandles))
  /\ WF_vars(WaitDone)
  /\ WF_vars(SleepDone)
  /\ WF_vars(\E sel \in DiscoveryResults : DetectDone(LiveHandles, sel))
  /\ WF_vars(\E h \in Handles : CloseDeliver(h))
  /\ WF_vars(\E h \in Handles :
               wsState[h] = "aborting" /\ FailConnect(LiveFaults, h))
  /\ WF_vars(\E h \in Handles : OpenBalanceDone(h))
  /\ WF_vars(\E h \in Handles : RegisterDone(LiveFaults, h, TRUE))

SpecLive == Init /\ [][NextLive]_vars /\ Scheduling


\* ------------------------------------------------------------ the claims

\* the requests in flight, and those whose backend call has not returned
InFlight == {q \in RequestIds : req[q].phase # "free"}
InBackend == {q \in RequestIds : req[q].phase = "backend"}

\* C1: in every reachable state this.activeModels, the admission set, holds
\* at most maxConcurrentModels entries.
C1_AdmissionSetBounded == Cardinality(activeModels) <= maxConcurrentModels

\* C1 witness: the admission set is full and a request has just been
\* rejected for that reason.
C1_Witness ==
  /\ Cardinality(activeModels) = maxConcurrentModels
  /\ last.outcome = "rejected"

\* C2: the backend calls in flight target at most maxConcurrentModels
\* distinct models, also with overlapping requests for one model.
C2_DistinctModelsBounded ==
  Cardinality({req[q].model : q \in InBackend}) <= maxConcurrentModels

\* C3: when the requests in flight are a batch of requests for distinct
\* registered models none of which has completed (each is in its backend
\* call and holds its own entry of the admission set), a request for one more
\* distinct registered model is admitted if the batch has fewer than
\* maxConcurrentModels requests, and is otherwise answered at once with one
\* error response and not passed to a backend.
C3_FirstKAdmitted ==
  [][(/\ \A q \in InFlight :
          req[q].phase = "backend" /\ req[q].model \in models
      /\ \A p, q \in InFlight : p # q => req[p].model # req[q].model
      /\ activeModels = {req[q].model : q \in InFlight})
     =>
       \A r \in RequestIds :
         LET admitted == req'[r].phase = "backend"
             m == IF admitted THEN req'[r].model ELSE last'.model
         IN (/\ req[r].phase = "free"
             /\ admitted \/ last'.requestId = r
             /\ m \in models
             /\ m \notin activeModels)
            => IF Cardinality(InFlight) < maxConcurrentModels
               THEN admitted
               ELSE /\ ~admitted
                    /\ last'.outcome = "rejected"
                    /\ last'.sent = 1
                    /\ last'.sentId = r
                    /\ last'.code # "none"]_vars

\* C4: when the processing of a request ends and the connection it arrived
\* on is still open, exactly one completion_response with its requestId
\* has been sent.
C4_ExactlyOneResponse ==
  (last.outcome # "none" /\ wsState[last.conn] = "open")
    => (last.sent = 1 /\ last.sentId = last.requestId)

\* C5: at most one connection handle is connecting or open at any time.
C5_AtMostOneLive == Cardinality(Live) <= 1

\* C6: once maxReconnectAttempts connection attempts have failed (their
\* promise was rejected) with none succeeding, the process has exited.
C6_ExitAfterMaxAttempts ==
  Cardinality({h \in Handles : wsState[h] # "none" /\ waiter[h] = "none"})
      >= maxReconnectAttempts
    => exited

\* C7: after a 'close' with the authentication-failure code no connection
\* handle is created any more.
C7_NoHandleAfterAuthFailure == [][authFailed => Created' = Created]_vars

\* C7 witness: the only handle was closed with code 4001 while its 'open'
\* handler was still running, and the detectAndConnect() that start() went
\* on with called connect(), which returned without creating a handle.
C7_Witness ==
  /\ authFailed
  /\ Created = {1}
  /\ openPc[1] = "balance"
  /\ startPc = "sleep"

\* C8: whenever a register message is written to a handle, the admission
\* set is empty.
C8_ReadyWithEmptyAdmissionSet ==
  [][\A h \in Handles :
       regCount'[h] > regCount[h] => activeModels' = {}]_vars

\* C9: the response to a request whose connection has dropped is discarded:
\* a completion_response is sent only while the handle its request arrived
\* on is open, never on a handle created later.
C9_DroppedResponseDiscarded == last.sent > 0 => wsState[last.conn] = "open"

\* C10: the response to a request for a model that is not registered carries
\* the requestId and the error code "model_unavailable".
C10_ModelUnavailableCode ==
  (last.outcome = "unknown" /\ last.sent > 0)
    => (last.sentId = last.requestId /\ last.code = "model_unavailable")

\* C11: a completion_request for a model that is not in this.models never
\* starts a backend call: its processing ends in the step in which it
\* arrives, which is the step that writes its error response.
C11_UnknownModelNoBackend ==
  [][\A r \in RequestIds :
       req[r].phase = "free" =>
         /\ req'[r].phase = "backend" => req'[r].model \in models
         /\ (last'.requestId = r /\ last'.model \notin models)
              => (req'[r].phase = "free" /\ last'.outcome = "unknown")]_vars

\* C11 witness: with models registered and a backend call of another request
\* running, a request for an unregistered model has just been answered.
C11_Witness ==
  /\ last.outcome = "unknown"
  /\ last.sent = 1
  /\ models # {}
  /\ last.model \notin models
  /\ InBackend # {}

\* C12: the error response to a request rejected by the admission control
\* has the code "concurrency_exceeded".
C12_ConcurrencyExceededCode ==
  (last.outcome = "rejected" /\ last.sent > 0)
    => last.code = "concurrency_exceeded"

\* C13: when SIGINT or SIGTERM arrives, the disconnect message is written to
\* every connection of the running client that is open at that moment.
C13_DisconnectSentOnSignal ==
  [][(sigPc = "none" /\ sigPc' = "cleanup")
       => \A h \in Handles :
            wsState[h] = "open" => h \in disconnectSent']_vars

C15_StaleConnectionTornDown ==
  [][(/\ hbActive /\ stale /\ shouldReconnect
      /\ ~hbActive' /\ ~exited'
      /\ \A h \in Handles : wsState'[h] = "closed" => wsState[h] = "closed")
     => /\ \A h \in Handles :
             (wsState[h] = "open" /\ regCount[h] > 0) => wsState'[h] # "open"
        /\ reconnectsWaiting' = reconnectsWaiting + 1]_vars

\* C16: a handle whose connect() promise was rejected by the 15 s timeout
\* (it is still connecting and nobody awaits it) never opens afterwards.
C16_TimedOutHandleStaysDown ==
  [][\A h \in Handles :
       (wsState[h] = "connecting" /\ waiter[h] = "none")
         => wsState'[h] # "open"]_vars

\* C17: once a Ready connection (a handle a register message was written
\* to) is closed and no connection is left, with no authentication failure,
\* no shutdown and the process still running, the client eventually creates
\* a new handle (or ends through the reconnect budget or a shutdown).  This
\* covers a remote close with code 1000, after which no reconnect() is called.
Disconnected(n) ==
  /\ Cardinality(Created) = n
  /\ \A h \in Created : wsState[h] = "closed"
  /\ \E h \in Created : regCount[h] > 0
  /\ shouldReconnect
  /\ ~exited

C18_NoDiscoveryAfterAuthFailure ==
  [][authFailed => ~(startPc # "detect" /\ startPc' = "detect")]_vars

\* C19: the step in which a request ends with a failure (unknown model,
\* admission rejection, backend error) leaves every handle's state, this.ws,
\* isConnected, shouldReconnect, reconnectAttempts, the pending reconnects,
\* the heartbeat and the process untouched; it writes at most one message,
\* an error response carrying the request's id.
C19_RequestFailureKeepsConnection ==
  [][last'.outcome \in {"unknown", "rejected", "failed"}
       => /\ UNCHANGED <<ws, wsState, isConnected, shouldReconnect,
                         reconnectAttempts, reconnectsWaiting, hbActive,
                         exited>>
          /\ last'.sent <= 1
          /\ last'.sent = 1 => /\ last'.code # "none"
                               /\ last'.sentId = last'.requestId]_vars

C19_Witness ==
  /\ last.outcome = "failed"
  /\ last.sent = 1
  /\ isConnected
  /\ wsState[last.conn] = "open"

\* C20: the step that handles a ping message writes the pong in that same
\* step, on the handle the ping arrived on, however many completion requests
\* are waiting for their backend calls.
C20_PongWithoutWaiting ==
  ping.on # 0 => (ping.pong = 1 /\ ping.pongOn = ping.on)

\* C21: a register message is never written while this.models is empty:
\* every handle a register message was written to was registered with a
\* non-empty list of models.
C21_NoRegisterWithoutModels ==
  \A h \in Handles : regCount[h] > 0 => models # {}

\* C22: without an api key no handle is ever created and no discovery
\* result is ever taken.
C22_NoConnectWithoutCredential ==
  ~apiKey => (Created = {} /\ startPc \in {"idle", "auth"})

\* C23: a completion_request that repeats the requestId and model of a
\* request already answered with a result is processed like any other: it
\* is not dropped, its backend call is made whenever the model is registered
\* and the admission control has room, and when that call and
\* fetchBalance() have returned the step that ends it writes, to an open
\* this.ws, one more completion_response with a result and that requestId.
C23_ReplayProcessedAgain ==
  [][\A r \in RequestIds :
       /\ (req[r].phase = "free" /\ last'.requestId = r /\ last'.again)
            => \/ /\ last'.outcome = "unknown"
                  /\ last'.model \notin models
               \/ /\ last'.outcome = "rejected"
                  /\ Cardinality(activeModels) >= maxConcurrentModels
                  /\ last'.model \notin activeModels
       /\ (req[r].replay /\ req[r].phase = "balance"
             /\ req'[r].phase = "free" /\ wsState[ws] = "open")
            => /\ last'.sent = 1
               /\ last'.sentId = r
               /\ last'.code = "none"]_vars

C23_Witness ==
  /\ last.again
  /\ last.outcome = "completed"
  /\ last.sent = 1
  /\ last.code = "none"
  /\ last.sentId = last.requestId

C25_BackendErrorCode ==
  (last.outcome = "failed" /\ last.sent > 0) => last.code = "backend_error"

\* C26: every completion_response written carries the requestId of the
\* request whose processing wrote it, and one that carries a result carries
\* the value the backend returned for that same request, also while other
\* requests hold their results.
C26_ResponseMatchesRequest ==
  last.sent > 0 =>
    /\ last.requestId \in RequestIds
    /\ last.sentId = last.requestId
    /\ last.code = "none" => last.payload = last.requestId

C26_Witness ==
  /\ last.sent = 1
  /\ last.code = "none"
  /\ last.payload = last.requestId
  /\ \E q \in RequestIds : q > last.requestId /\ req[q].phase = "balance"

\* C27: the step that ends the processing of a request leaves its model
\* out of this.activeModels, whatever the outcome, and whenever no request
\* is in flight this.activeModels is empty.
C27_SlotReleased ==
  /\ InFlight = {} => activeModels = {}
  /\ last.requestId # 0 => last.model \notin activeModels

C27_Witness ==
  /\ last.outcome = "failed"
  /\ InFlight = {}
  /\ activeModels = {}

\* C28: a completion_request for a registered model that is in
\* this.activeModels never ends at its receipt (as unknown or rejected): its
\* backend call is made, also with this.activeModels at maxConcurrentModels.
C28_ActiveModelAdmitted ==
  [][\A r \in RequestIds :
       (req[r].phase = "free" /\ last'.requestId = r)
         => ~(last'.model \in models /\ last'.model \in activeModels)]_vars

C28_Witness ==
  /\ Cardinality(activeModels) = maxConcurrentModels
  /\ Cardinality(InBackend) = maxConcurrentModels + 1

\* C29: reconnectAttempts goes back to 0 only in a step that writes a
\* register message (the entry to Ready).
C29_ResetOnlyOnReady ==
  [][(reconnectAttempts > 0 /\ reconnectAttempts' = 0)
       => \E h \in Handles : regCount'[h] > regCount[h]]_vars

\* C30: the step that runs setupHeartbeat() for a handle leaves the monitor
\* fresh: lastPong is not older than 45 s when the new interval starts.
C30_HeartbeatFreshOnReady ==
  [][\A h \in Handles : (~hbOn[h] /\ hbOn'[h]) => ~stale']_vars

\* C31: the step that handles a message of type ping leaves the last-liveness
\* timestamp current: lastPong is not older than 45 s after it.
C31_ProbeRefreshesLastPong ==
  [][ping'.on # 0 => ~stale']_vars

\* C32: every reconnect() that counted an attempt answers the loss of a
\* different connection.  With the connect() entry the handles after the
\* first are created by reconnect() only, so the reconnect() calls that are
\* waiting or have created a handle never outnumber the handles that are
\* lost (terminated, closing or closed).
C32_OneReconnectPerLoss ==
  mainPc = "connect" =>
    reconnectsWaiting + Cardinality(Created) - 1
      <= Cardinality(Created \ Live)

\* C33: the temperature and max_tokens of a backend call are those of the
\* request whenever it carries them, and the defaults only when it does not.
C33_OptionsPassedThrough ==
  call.made =>
    /\ call.temperature = IF call.reqTemperature.has
                          THEN call.reqTemperature.val
                          ELSE DefaultTemperature
    /\ call.max_tokens = IF call.reqMaxTokens.has
                         THEN call.reqMaxTokens.val
                         ELSE DefaultMaxTokens

\* C34: when the EXO service is running, the models it lists are in the
\* result of detectAll().
C34_ExoModelsDetected ==
  (detection.made /\ detection.running.exo) => ExoModels \subseteq detection.result

\* C35: the step that delivers 'close' for a handle other than this.ws
\* leaves a connecting or open this.ws as it is.
C35_SupersededCloseHarmless ==
  [][\A h \in Handles :
       (/\ h # ws
        /\ wsState[h] \notin {"none", "closed"}
        /\ wsState'[h] = "closed"
        /\ ws \in Live)
         => (ws' = ws /\ wsState'[ws] = wsState[ws])]_vars

\* C36: the register() called by the 'open' handler of a handle writes no
\* register message to any other handle.
C36_RegisterOnOwnHandle ==
  [][\A h \in Handles :
       (openPc[h] = "userinfo" /\ openPc'[h] = "done")
         => \A k \in Handles \ {h} : regCount'[k] = regCount[k]]_vars

\* C37: when a handle that carries the heartbeat listeners closes, no
\* heartbeat interval is running after that step.
C37_NoTimerAfterClose ==
  [][\A h \in Handles :
       (hbActive /\ hbOn[h] /\ wsState[h] = "open" /\ wsState'[h] = "closed")
         => ~hbActive']_vars

\* C38: isConnected is true only while this.ws is open, and it is true
\* whenever this.ws is open and a register message was written to it.
C38_IsConnectedMatchesHandle ==
  /\ isConnected => (ws # 0 /\ wsState[ws] = "open")
  /\ (ws # 0 /\ wsState[ws] = "open" /\ regCount[ws] > 0) => isConnected

\* C39: the step that ends a request at its receipt, as unknown model or as
\* admission rejection, leaves this.activeModels unchanged.
C39_RejectionKeepsAdmissionSet ==
  [][last'.outcome \in {"unknown", "rejected"}
       => activeModels' = activeModels]_vars

C39_Witness ==
  /\ last.outcome = "rejected"
  /\ Cardinality(activeModels) = maxConcurrentModels
  /\ Cardinality(InBackend) >= maxConcurrentModels
====
